---- MODULE Spec2Model ----
(***************************************************************************)
(* Reputation bot: the webhook's event handlers (app.py), the platform     *)
(* client (github_client.py) and the scoring function (reputation.py).     *)
(*                                                                         *)
(* The platform (GitHub) is modelled by one thread (an issue or pull       *)
(* request) with its author and its comment list, and by the repository's  *)
(* pull requests and issues that the reputation of a user is read from.    *)
(* Every handler slot is one request of the Flask application; the steps   *)
(* of a handler are its platform calls, which interleave with the other    *)
(* handler's calls and with people commenting on the thread.               *)
(***************************************************************************)
EXTENDS Integers, Sequences, FiniteSets, TLC

VARIABLES
    bot_username,   \* login of the authenticated user (github.get_user().login)
    issue_user,     \* login of the thread's author (issue.user.login)
    comments,       \* the thread's comments, in thread order
    next_id,        \* the platform's next comment id
    repo,           \* the repository's pull requests and issues
    WEBHOOK_SECRET, \* whether GITHUB_WEBHOOK_SECRET is set (app.py:24)
    failing,        \* username -> the platform calls that fail for it
    hs,             \* handler slot -> the locals of the request it serves
    nEvents,        \* number of webhook deliveries so far
    data,           \* input of calculate_reputation (SpecScore)
    score,          \* its result, as a sequence of zero or one integers
    nBlocks,        \* number of comment blocks put on the thread (SpecParticipants)
    result          \* result of get_issue_participants, zero or one sets

vars == <<bot_username, issue_user, comments, next_id, repo,
          WEBHOOK_SECRET, failing, hs, nEvents,
          data, score, nBlocks, result>>

-----------------------------------------------------------------------------
(* Bounds of the model *)

MaxEvents == 2          \* webhook deliveries in one behaviour
MaxUserComments == 1    \* comments written by people and foreign bots
MaxCount == 2           \* largest count in a record given to calculate_reputation
MaxBlocks == 3          \* comment blocks of a generated thread
MaxThread == 3          \* comments of a thread given to a single function
MaxFailAt == 2          \* largest position of a platform call that fails in a loop

Handlers == {1, 2}

-----------------------------------------------------------------------------
(* Program constants *)

REPUTATION_THRESHOLD == -80
MaxInspectedComments == 30
MaxParticipants == 10
MaxSearchedPulls == 100
MaxIssues == 100
MaxCommentHits == 50
MaxReactionItems == 5
MaxScannedPulls == 300

THREAD == 1849          \* the number of the one thread of the model

-----------------------------------------------------------------------------
(* Accounts.  A login is a string; the two tests the code makes on a login  *)
(* (== 'London-Cat', .endswith('[bot]')) are decided here by membership.    *)

LondonCat == "London-Cat"
BotSuffixed == {"some-bot[bot]", "reputation-bot[bot]"}
People == <<"alice", "bob", "carol", "dave", "erin", "frank", "grace",
            "heidi", "ivan", "judy", "mallory", "niaj">>
CORE_TEAM_MEMBERS == {"maintainer"}

endswith_bot(login) == login \in BotSuffixed

Range(s) == {s[i] : i \in 1..Len(s)}
Min(a, b) == IF a <= b THEN a ELSE b

-----------------------------------------------------------------------------
(* reputation.py *)

ScoreKeys == {"merged_prs", "open_prs", "closed_prs", "issues", "comments",
              "core_thumbs_up", "core_thumbs_down"}

\* closed pull requests added instead of subtracted
calculate_reputation_no_penalty(d) ==
    LET s1 == 0 + d["merged_prs"] * 20
        s2 == s1 + d["open_prs"] * 3
        s3 == s2 + d["closed_prs"] * 10
        s4 == s3 + d["issues"] * 5
        s5 == s4 + d["core_thumbs_up"] * 15
        s6 == s5 - d["core_thumbs_down"] * 50
    IN  s6

\* score = 0, then one += or -= per line of the function
calculate_reputation(d) ==
    LET s1 == 0 + d["merged_prs"] * 20
        s2 == s1 + d["open_prs"] * 3
        s3 == s2 - d["closed_prs"] * 10
        s4 == s3 + d["issues"] * 5
        s5 == s4 + d["core_thumbs_up"] * 15
        s6 == s5 - d["core_thumbs_down"] * 50
    IN  s6

\* The single line of a pull-request comment: the score and the counts it shows.
format_reputation_line(s, d) == [score |-> s, data |-> d]

-----------------------------------------------------------------------------
(* Comment bodies.  A body is text; the model keeps what the code reads or   *)
(* writes of it: which of the texts below it is (kind), the table rows in    *)
(* order, and the reputation line of a pull-request comment.                 *)
(*   text   a person's comment                                               *)
(*   quote  a person's comment that quotes "Generated by Reputation Bot"     *)
(*   link   a person's comment that quotes "Generated by [Reputation Bot]"   *)
(*   heading  a person's comment that quotes the "Reputation Summary" heading *)
(*   line   reputation line + "_Generated by Reputation Bot_"   (app.py:204) *)
(*   close  the auto-close explanation, same signature      (app.py:179-194) *)
(*   table  "Reputation Summary" heading, the rows and                       *)
(*          "_Generated by [Reputation Bot](...)_"          (app.py:287-322) *)

NoBody == [kind |-> "none", rows |-> <<>>, line |-> <<>>]
PlainBody(k) == [kind |-> k, rows |-> <<>>, line |-> <<>>]
LineBody(reputation_line) ==
    [kind |-> "line", rows |-> <<>>, line |-> <<reputation_line>>]
CloseBody(reputation_line) ==
    [kind |-> "close", rows |-> <<>>, line |-> <<reputation_line>>]
TableBody(participant_data) ==
    [kind |-> "table", rows |-> participant_data, line |-> <<>>]

\* 'Generated by Reputation Bot' in body
has_plain_signature(body) == body.kind \in {"quote", "line", "close"}
\* 'Generated by [Reputation Bot]' in body
has_link_signature(body) == body.kind \in {"table", "link"}
\* 'Reputation Summary' heading in body
has_summary_heading(body) == body.kind \in {"table", "heading"}

-----------------------------------------------------------------------------
(* github_client.py: get_user_reputation.                                    *)
(* A repository is [pulls, issues]: pulls is the list repo.get_pulls('all')  *)
(* returns, each [user, merged, state]; issues the repository's issues, each *)
(* [user, commenters, reactions], reactions a list of [user, content].       *)

\* search_issues("repo:.. author:<username> is:pr"), then repo.get_pull of each
search_pulls(r, username) == SelectSeq(r.pulls, LAMBDA pr : pr.user = username)
\* search_issues("repo:.. author:<username> is:issue")
search_issues_by(r, username) == SelectSeq(r.issues, LAMBDA i : i.user = username)
\* search_issues("repo:.. commenter:<username>")
search_commented(r, username) ==
    SelectSeq(r.issues, LAMBDA i : username \in i.commenters)

NoPulls == [merged_prs |-> 0, open_prs |-> 0, closed_prs |-> 0]

\* the if/elif/elif of lines 50-55 applied to prs[i..], counts so far in acc:
\* each pull request adds one to the counter of the first test it passes
classify_pulls(prs, i, acc) ==
    LET rest == i..Len(prs)
    IN  [merged_prs |-> acc.merged_prs
                          + Cardinality({k \in rest : prs[k].merged}),
         open_prs |-> acc.open_prs
                        + Cardinality({k \in rest : /\ ~prs[k].merged
                                                    /\ prs[k].state = "open"}),
         closed_prs |-> acc.closed_prs
                          + Cardinality({k \in rest : /\ ~prs[k].merged
                                                      /\ prs[k].state # "open"
                                                      /\ prs[k].state = "closed"})]

RECURSIVE count_core_reactions(_, _, _, _)
\* the loop of lines 140-145 over one item's reactions
count_core_reactions(reactions, i, core_team, acc) ==
    IF i > Len(reactions) THEN acc
    ELSE count_core_reactions(reactions, i + 1, core_team,
            IF reactions[i].user \in core_team
            THEN IF reactions[i].content = "+1"
                 THEN [acc EXCEPT !.up = @ + 1]
                 ELSE IF reactions[i].content = "-1"
                 THEN [acc EXCEPT !.down = @ + 1]
                 ELSE acc
            ELSE acc)

RECURSIVE check_reactions(_, _, _, _, _)
\* the loop of lines 134-148 over the first five search results
check_reactions(items, i, username, core_team, acc) ==
    IF i > Len(items) THEN acc
    ELSE check_reactions(items, i + 1, username, core_team,
            IF items[i].user = username
            THEN count_core_reactions(items[i].reactions, 1, core_team, acc)
            ELSE acc)

\* The record returned when no platform call fails.
get_user_reputation(r, username, core_team) ==
    LET pr_results == search_pulls(r, username)
        prs == classify_pulls(
                   SubSeq(pr_results, 1, Min(Len(pr_results), MaxSearchedPulls)),
                   1, NoPulls)
        issues_created == Min(Len(search_issues_by(r, username)), MaxIssues)
        search_results == search_commented(r, username)
        comments_count == Min(Len(search_results), MaxCommentHits)
        thumbs == check_reactions(
                      SubSeq(search_results, 1,
                             Min(Len(search_results), MaxReactionItems)),
                      1, username, core_team, [up |-> 0, down |-> 0])
    IN  [merged_prs |-> prs.merged_prs,
         open_prs |-> prs.open_prs,
         closed_prs |-> prs.closed_prs,
         issues |-> issues_created,
         comments |-> comments_count,
         core_thumbs_up |-> thumbs.up,
         core_thumbs_down |-> thumbs.down]

\* The platform calls of get_user_reputation that fail for one username:
\*   get_repo          github.get_repo (line 24)
\*   search_pulls      the is:pr search, before any match is classified
\*   get_pull          k: repo.get_pull of the k-th match raises; 0: none does
\*   get_pulls         repo.get_pulls, the scan of lines 72-86
\*   search_issues     the is:issue search
\*   get_issues        repo.get_issues, the scan of lines 113-116
\*   search_commented  the commenter search
\*   get_issue         k: repo.get_issue of the k-th inspected item raises
NoFailures ==
    [get_repo |-> FALSE, search_pulls |-> FALSE, get_pull |-> 0,
     get_pulls |-> FALSE, search_issues |-> FALSE, get_issues |-> FALSE,
     search_commented |-> FALSE, get_issue |-> 0]

\* repo.get_pulls(state='all'), at most 300 looked at, those of username
scan_pulls(r, username) ==
    SelectSeq(SubSeq(r.pulls, 1, Min(Len(r.pulls), MaxScannedPulls)),
              LAMBDA pr : pr.user = username)

\* repo.get_issues(state='all', creator=username): the user's issues and, as
\* the platform lists pull requests among the issues, the user's pull requests
get_issues(r, username) ==
    [i \in 1..Len(search_issues_by(r, username)) |-> [pull_request |-> FALSE]]
    \o [i \in 1..Len(search_pulls(r, username)) |-> [pull_request |-> TRUE]]

\* lines 114-116
scan_issues(r, username) ==
    LET issues == get_issues(r, username)
    IN  Len(SelectSeq(SubSeq(issues, 1, Min(Len(issues), MaxIssues)),
                      LAMBDA issue : ~issue.pull_request))

RECURSIVE check_reactions_with(_, _, _, _, _, _)
\* the loop of lines 134-148 when the get_issue of item number bad raises:
\* the except of line 146 goes on with the next item
check_reactions_with(items, i, username, core_team, acc, bad) ==
    IF i > Len(items) THEN acc
    ELSE check_reactions_with(items, i + 1, username, core_team,
            IF i # bad /\ items[i].user = username
            THEN count_core_reactions(items[i].reactions, 1, core_team, acc)
            ELSE acc,
            bad)

\* lines 18-169 with the failures f: raised (line 27), or the record
\* returned.  The counters of lines 29-31 keep what the search path counted
\* when the scan of lines 72-86 starts.
get_user_reputation_with(r, username, core_team, f) ==
    LET found == search_pulls(r, username)
        matches == SubSeq(found, 1, Min(Len(found), MaxSearchedPulls))
        pr_fetch_success == ~f.search_pulls /\ f.get_pull \notin 1..Len(matches)
        searched ==
            IF f.search_pulls THEN NoPulls
            ELSE IF f.get_pull \in 1..Len(matches)
            THEN classify_pulls(SubSeq(matches, 1, f.get_pull - 1), 1, NoPulls)
            ELSE classify_pulls(matches, 1, NoPulls)
        prs == IF pr_fetch_success THEN searched
               ELSE IF f.get_pulls THEN searched
               ELSE classify_pulls(scan_pulls(r, username), 1, searched)
        issues_created ==
            IF ~f.search_issues
            THEN Min(Len(search_issues_by(r, username)), MaxIssues)
            ELSE IF f.get_issues THEN 0
            ELSE scan_issues(r, username)
        search_results == search_commented(r, username)
        comments_count ==
            IF f.search_commented THEN 0
            ELSE Min(Len(search_results), MaxCommentHits)
        thumbs ==
            IF f.search_commented THEN [up |-> 0, down |-> 0]
            ELSE check_reactions_with(
                     SubSeq(search_results, 1,
                            Min(Len(search_results), MaxReactionItems)),
                     1, username, core_team, [up |-> 0, down |-> 0], f.get_issue)
    IN  [raised |-> f.get_repo,
         record |-> IF f.get_repo THEN <<>>
                    ELSE <<[merged_prs |-> prs.merged_prs,
                            open_prs |-> prs.open_prs,
                            closed_prs |-> prs.closed_prs,
                            issues |-> issues_created,
                            comments |-> comments_count,
                            core_thumbs_up |-> thumbs.up,
                            core_thumbs_down |-> thumbs.down]>>]

-----------------------------------------------------------------------------
(* github_client.py: the thread *)

RECURSIVE collect_participants(_, _, _)
\* the loop of lines 187-196 from comment i on: the set collected and the
\* number of comments the loop looked at before it ended
collect_participants(cs, i, acc) ==
    IF i > Len(cs) THEN [set |-> acc, inspected |-> Len(cs)]
    ELSE IF cs[i].user = LondonCat
    THEN collect_participants(cs, i + 1, acc)
    ELSE IF Cardinality(acc \cup {cs[i].user}) >= MaxParticipants
    THEN [set |-> acc \cup {cs[i].user}, inspected |-> i]
    ELSE collect_participants(cs, i + 1, acc \cup {cs[i].user})

\* lines 182-196: the author, then the first 30 comments
inspect_comments(author, cs) ==
    collect_participants(SubSeq(cs, 1, Min(Len(cs), MaxInspectedComments)),
                         1, {author})

\* the filter without its London-Cat test
filter_bots_suffix_only(ps) == {p \in ps : ~endswith_bot(p)}

\* line 202
filter_bots(ps) == {p \in ps : ~endswith_bot(p) /\ p # LondonCat}

get_issue_participants(author, cs) == filter_bots(inspect_comments(author, cs).set)

None == [id |-> 0, body |-> NoBody]

\* only the signature of the pull-request comments is looked for
is_bot_comment_plain_only(comment, bot) == has_plain_signature(comment.body)

is_bot_comment(comment, bot) ==
    \/ comment.user = bot
    \/ has_plain_signature(comment.body)
    \/ has_link_signature(comment.body)
    \/ has_summary_heading(comment.body)

\* the loop going on after a match: the last matching comment is returned
find_last(cs, i, bot) ==
    LET matching == {k \in i..Len(cs) : is_bot_comment(cs[k], bot)}
    IN  IF matching = {} THEN None
        ELSE LET k == CHOOSE k \in matching : \A m \in matching : m <= k
             IN  [id |-> cs[k].id, body |-> cs[k].body]

RECURSIVE find_from(_, _, _)
\* lines 235-253 from comment i on
find_from(cs, i, bot) ==
    IF i > Len(cs) THEN None
    ELSE IF is_bot_comment(cs[i], bot)
    THEN [id |-> cs[i].id, body |-> cs[i].body]
    ELSE find_from(cs, i + 1, bot)

\* a lookup that never finds a comment
find_bot_comment_never(cs, bot) == None

find_bot_comment(cs, bot) == find_from(cs, 1, bot)

\* a create that does nothing when the account already has a comment there
post_comment_unless_present(cs, id, user, body) ==
    IF \E i \in 1..Len(cs) : cs[i].user = user THEN cs
    ELSE Append(cs, [id |-> id, user |-> user, body |-> body])

\* issue.create_comment(body): a new comment at the end of the thread
post_comment(cs, id, user, body) ==
    Append(cs, [id |-> id, user |-> user, body |-> body])

\* PATCH /issues/comments/<comment_id>: the body of that comment is replaced
update_comment(cs, comment_id, body) ==
    [i \in 1..Len(cs) |->
        IF cs[i].id = comment_id THEN [cs[i] EXCEPT !.body = body] ELSE cs[i]]

-----------------------------------------------------------------------------
(* app.py: the table of post_or_update_issue_reputation *)

\* x goes before the entries whose score equals its own
insert_by_score_before_equal(sorted, i, x) ==
    LET smaller == {k \in 1..Len(sorted) : sorted[k].score <= x.score}
        at == IF smaller = {} THEN Len(sorted) + 1
              ELSE CHOOSE k \in smaller : \A m \in smaller : k <= m
    IN  SubSeq(sorted, 1, at - 1) \o <<x>> \o SubSeq(sorted, at, Len(sorted))

RECURSIVE insert_by_score(_, _, _)
\* x goes behind every entry whose score is not smaller than its own
insert_by_score(sorted, i, x) ==
    IF i > Len(sorted) THEN Append(sorted, x)
    ELSE IF sorted[i].score < x.score
    THEN SubSeq(sorted, 1, i - 1) \o <<x>> \o SubSeq(sorted, i, Len(sorted))
    ELSE insert_by_score(sorted, i + 1, x)

RECURSIVE sort_by_score(_)
\* participant_data.sort(key=score, reverse=True): stable
sort_by_score(pd) ==
    IF pd = <<>> THEN <<>>
    ELSE insert_by_score(sort_by_score(SubSeq(pd, 1, Len(pd) - 1)), 1, pd[Len(pd)])

\* the loop starting at the second username
collect_participant_data_skip_first(r, order) ==
    [i \in 1..(Len(order) - 1) |->
        LET reputation_data == get_user_reputation(r, order[i + 1], CORE_TEAM_MEMBERS)
        IN  [username |-> order[i + 1],
             score |-> calculate_reputation(reputation_data),
             data |-> reputation_data]]

\* lines 272-282: one entry per username, in the order the set is iterated
collect_participant_data(r, order) ==
    [i \in 1..Len(order) |->
        LET reputation_data == get_user_reputation(r, order[i], CORE_TEAM_MEMBERS)
        IN  [username |-> order[i],
             score |-> calculate_reputation(reputation_data),
             data |-> reputation_data]]

RECURSIVE gather(_, _, _, _)
\* lines 272-282 from username i on when platform calls fail: the entries
\* appended so far, or raised when a get_user_reputation raises (nothing
\* catches it in the loop)
gather(r, order, i, acc) ==
    IF i > Len(order) THEN [raised |-> FALSE, participant_data |-> acc]
    ELSE LET f == IF order[i] \in DOMAIN failing THEN failing[order[i]]
                  ELSE NoFailures
             got == get_user_reputation_with(r, order[i], CORE_TEAM_MEMBERS, f)
         IN  IF got.raised THEN [raised |-> TRUE, participant_data |-> acc]
             ELSE gather(r, order, i + 1,
                         Append(acc, [username |-> order[i],
                                      score |-> calculate_reputation(got.record[1]),
                                      data |-> got.record[1]]))

\* The orders in which "for username in participants" can visit a set.
IterationOrders(S) ==
    {o \in [1..Cardinality(S) -> S] : Range(o) = S}

-----------------------------------------------------------------------------
(* The repository contents the handlers read reputations from *)

Pull(user, merged, state) == [user |-> user, merged |-> merged, state |-> state]
Issue(user, commenters, reactions) ==
    [user |-> user, commenters |-> commenters, reactions |-> reactions]
Reaction(user, content) == [user |-> user, content |-> content]

\* alice -85 (below the threshold), bob -80 (the threshold itself), carol 48,
\* everybody else 0
TheRepo ==
    [pulls |-> [i \in 1..4 |-> Pull("alice", FALSE, "closed")]
               \o <<Pull("carol", TRUE, "closed"), Pull("carol", TRUE, "closed"),
                    Pull("carol", FALSE, "open")>>
               \o [i \in 1..8 |-> Pull("bob", FALSE, "closed")],
     issues |-> <<Issue("alice", {"alice", "bob"},
                        <<Reaction("maintainer", "-1"), Reaction("bob", "-1")>>),
                  Issue("carol", {"alice"}, <<Reaction("carol", "+1")>>)>>]

Repos == {TheRepo}

-----------------------------------------------------------------------------
(* app.py: the webhook and its handlers *)

\* What the handlers read of a payload, with the X-GitHub-Event header of its
\* request.  value is the JSON value the body stands for: "object" (a dict),
\* "falsy" (None, [], 0, "": the handlers are called with it) or "truthy" (another
\* non-dict value).  issue is the value of 'pull_request' or 'issue', user the
\* 'user' inside it, comment the 'comment' of an issue_comment payload: each
\* "object", "absent" or "null", comment also "user_null" (a comment whose
\* 'user' is null).  number 0 and login "" stand for an absent or null value.
PartialPayload(event, action, issue, user, comment, number, login) ==
    [event |-> event, action |-> action, number |-> number, login |-> login,
     issue |-> issue, user |-> user, comment |-> comment, value |-> "object"]

\* A payload with every object the handlers read in place
Payload(event, action, number, login) ==
    PartialPayload(event, action, "object", "object", "object", number, login)

\* A body that is not a JSON object
NonObject(event, value) == [Payload(event, "", 0, "") EXCEPT !.value = value]

\* Deliveries about the thread as an issue
IssuePayloads ==
    {Payload("issues", "opened", THREAD, "alice"),
     Payload("issues", "reopened", THREAD, "alice"),
     Payload("issues", "closed", THREAD, "alice"),
     Payload("issue_comment", "created", THREAD, "bob"),
     Payload("issue_comment", "created", 0, "bob")}

\* Deliveries about the thread as a pull request
PullPayloads ==
    {Payload("pull_request", "opened", THREAD, "alice"),
     Payload("pull_request", "reopened", THREAD, "bob"),
     Payload("pull_request", "opened", THREAD, "carol"),
     Payload("pull_request", "closed", THREAD, "alice"),
     Payload("pull_request", "opened", THREAD, ""),
     Payload("issue_comment", "created", THREAD, "bob"),
     Payload("push", "", 0, "")}

NoPayload == Payload("", "", 0, "")

\* A request: signature says how X-Hub-Signature-256 relates to the body
\* ("valid", "invalid", "absent", "non_ascii": a header with a character
\* outside ASCII), content_type is "form" (application/x-www-form-urlencoded) or
\* "json" (anything else), body is the raw data:
\*   empty             no data
\*   json              JSON text
\*   form_payload      form data whose 'payload' field is JSON text
\*   form_bad_payload  form data whose 'payload' field is not JSON
\*   form_other        other text: form data without a 'payload' field
\*   not_utf8          bytes that are not UTF-8
\* and payload is what the JSON text stands for.
Request(signature, content_type, body, p) ==
    [body |-> body, signature |-> signature, content_type |-> content_type,
     payload |-> p]

NoRequest == Request("", "", "", NoPayload)

\* A signed JSON delivery of payload p
Delivery(p) == Request("valid", "json", "json", p)

\* lines 38-54: TRUE, FALSE, or "raise" (hmac.compare_digest raises TypeError
\* on a str with a non-ASCII character)
verify_webhook_signature(secret, signature) ==
    IF ~secret THEN "True"
    ELSE IF signature = "non_ascii" THEN "raise"
    ELSE IF signature = "valid" THEN "True"
    ELSE "False"

\* lines 81-118: "payload" (the body's value is now the payload), "None" (no
\* parser assigned payload), "400" or "raise" (UnicodeDecodeError is not a
\* JSONDecodeError)
parse_payload(content_type, body) ==
    IF content_type = "form"
    THEN IF body = "form_payload" THEN "payload"
         ELSE IF body \in {"form_bad_payload", "not_utf8"} THEN "400"
         ELSE "None"
    ELSE IF body = "json" THEN "payload"
         ELSE IF body = "not_utf8" THEN "raise"
         ELSE IF body = "form_payload" THEN "payload"
         ELSE "400"

\* The locals of a request.  fetched, posted, updated, closed count its calls of
\* get_user_reputation, post_comment, update_comment and close_pull_request,
\* read says that it called get_issue_participants or find_bot_comment; target is
\* the id of the comment it wrote; handler is the handler function the webhook
\* called.  Kept for the properties only:
\* alone (no other request ran while it ran), since (the first comment id
\* that did not exist when it arrived), first_lookup (what line 258 found) and
\* covered (when it read the participants, the thread's bot comment was a
\* table of the bot listing exactly those participants).
Idle ==
    [pc |-> "idle", request |-> NoRequest, payload |-> NoPayload, handler |-> "",
     participants |-> {},
     existing_comment |-> None, participant_data |-> <<>>,
     comment_body |-> NoBody, reputation_score |-> 0,
     read |-> FALSE,
     fetched |-> 0, posted |-> 0, updated |-> 0, closed |-> 0, target |-> 0,
     status |-> 0, response |-> "", raised |-> "", alone |-> TRUE,
     since |-> 0, first_lookup |-> None, covered |-> FALSE]

Running(h) == hs[h].pc \notin {"idle", "done"}

\* an except branch that answers 'ok'
Raise_answers_ok(rec, what) ==
    [rec EXCEPT !.pc = "done", !.status = 200, !.response = "ok", !.raised = what]

\* The handler returns (status 200) or raises (status 500), lines 135-140.
Return(rec) == [rec EXCEPT !.pc = "done", !.status = 200, !.response = "ok"]
Raise(rec, what) ==
    [rec EXCEPT !.pc = "done", !.status = 500, !.response = "error", !.raised = what]

\* The webhook answers without calling a handler.
Answer(rec, status, response) ==
    [rec EXCEPT !.pc = "done", !.status = status, !.response = response]

\* lines 142-159: up to the first platform call.  "raise": .get on None
\* raises AttributeError.
handle_pull_request(p) ==
    IF p.value # "object" THEN "raise"
    ELSE IF p.action \notin {"opened", "reopened"} THEN "done"
    ELSE IF p.issue = "null" THEN "raise"
    ELSE IF p.issue = "object" /\ p.user = "null" THEN "raise"
    ELSE LET pr_number == IF p.issue = "object" THEN p.number ELSE 0
             author == IF p.issue = "object" /\ p.user = "object"
                       THEN p.login ELSE ""
         IN  IF author = "" \/ pr_number = 0 THEN "done"
             ELSE "pr_get_user_reputation"

\* lines 209-226
handle_issue(p) ==
    IF p.value # "object" THEN "raise"
    ELSE IF p.action \notin {"opened", "reopened"} THEN "done"
    ELSE IF p.issue = "null" THEN "raise"
    ELSE IF p.issue = "object" /\ p.user = "null" THEN "raise"
    ELSE LET issue_number == IF p.issue = "object" THEN p.number ELSE 0
             author == IF p.issue = "object" /\ p.user = "object"
                       THEN p.login ELSE ""
         IN  IF author = "" \/ issue_number = 0 THEN "done"
             ELSE "get_issue_participants"

\* a handler that runs for every action of a comment
handle_issue_comment_any_action(p) ==
    IF p.value # "object" THEN "raise"
    ELSE IF p.issue = "null" THEN "raise"
    ELSE IF p.comment \in {"null", "user_null"} THEN "raise"
    ELSE LET issue_number == IF p.issue = "object" THEN p.number ELSE 0
         IN  IF issue_number = 0 THEN "done"
             ELSE "get_issue_participants"

\* lines 228-245
handle_issue_comment(p) ==
    IF p.value # "object" THEN "raise"
    ELSE IF p.action # "created" THEN "done"
    ELSE IF p.issue = "null" THEN "raise"
    ELSE IF p.comment \in {"null", "user_null"} THEN "raise"
    ELSE LET issue_number == IF p.issue = "object" THEN p.number ELSE 0
         IN  IF issue_number = 0 THEN "done"
             ELSE "get_issue_participants"

\* lines 123-134
dispatch(p) ==
    IF p.event = "pull_request" THEN handle_pull_request(p)
    ELSE IF p.event = "issues" THEN handle_issue(p)
    ELSE IF p.event = "issue_comment" THEN handle_issue_comment(p)
    ELSE "done"

\* the handler function lines 123-134 call for an event
handler_of(event) ==
    IF event = "pull_request" THEN "handle_pull_request"
    ELSE IF event = "issues" THEN "handle_issue"
    ELSE IF event = "issue_comment" THEN "handle_issue_comment"
    ELSE ""

\* a webhook without the branch of lines 72-74
is_ping_never(event) == FALSE

\* line 72
is_ping(event) == event = "ping"

\* lines 57-121: the answer given before the dispatch (status, response), or
\* status 0 and the payload the dispatch gets
transport(req, secret) ==
    LET verified == verify_webhook_signature(secret, req.signature)
        parsed == parse_payload(req.content_type, req.body)
        payload == IF parsed = "None" THEN NonObject(req.payload.event, "falsy")
                   ELSE req.payload
        out(status, response) ==
            [status |-> status, response |-> response, payload |-> NoPayload]
    IN  IF verified = "raise" THEN out(500, "unhandled")
        ELSE IF verified = "False" THEN out(401, "error")
        ELSE IF is_ping(req.payload.event) THEN out(200, "pong")
        ELSE IF req.body = "empty" THEN out(200, "ok")
        ELSE IF parsed = "400" THEN out(400, "error")
        ELSE IF parsed = "raise" THEN out(500, "unhandled")
        ELSE IF payload.value = "truthy" THEN out(500, "unhandled")
        ELSE [status |-> 0, response |-> "", payload |-> payload]

\* lines 56-140: a request reaches a free request slot and runs to its answer
\* or to its first platform call.
webhook(h, req) ==
    /\ ~Running(h)
    /\ \A o \in Handlers : o < h => Running(o)
    /\ nEvents < MaxEvents
    /\ nEvents' = nEvents + 1
    /\ LET answer == transport(req, WEBHOOK_SECRET)
           first == IF answer.status = 0 THEN dispatch(answer.payload) ELSE "done"
           started == first \notin {"done", "raise"}
           busy == \E o \in Handlers \ {h} : Running(o)
           fresh == [Idle EXCEPT !.request = req, !.payload = answer.payload,
                                 !.handler = IF answer.status = 0
                                             THEN handler_of(answer.payload.event)
                                             ELSE "",
                                 !.since = next_id,
                                 !.alone = ~(busy /\ started)]
       IN  hs' = [o \in Handlers |->
                    IF o = h
                    THEN IF answer.status # 0
                         THEN Answer(fresh, answer.status, answer.response)
                         ELSE IF first = "done" THEN Return(fresh)
                         ELSE IF first = "raise"
                         THEN Raise(fresh, "AttributeError NoneType get")
                         ELSE [fresh EXCEPT !.pc = first]
                    ELSE IF Running(o) /\ started
                    THEN [hs[o] EXCEPT !.alone = FALSE]
                    ELSE hs[o]]
    /\ UNCHANGED <<bot_username, issue_user, comments, next_id, repo,
                   WEBHOOK_SECRET, failing, data, score, nBlocks, result>>

\* The usernames of a table's rows
row_usernames(body) == {body.rows[i].username : i \in 1..Len(body.rows)}

\* The identification rule of a bot comment: written by the bot's account, or
\* carrying one of the signature texts.
Recognised(c, bot) ==
    \/ c.user = bot
    \/ c.body.kind \in {"quote", "line", "close", "table", "link", "heading"}

\* The first recognised comment of cs is a table written by bot whose rows are
\* exactly ps.
TableCovers(cs, bot, ps) ==
    \E i \in 1..Len(cs) :
        /\ cs[i].user = bot
        /\ cs[i].body.kind = "table"
        /\ row_usernames(cs[i].body) = ps
        /\ \A j \in 1..(i - 1) : ~Recognised(cs[j], bot)

\* line 249, lines 251-253
GetParticipants(h) ==
    /\ hs[h].pc = "get_issue_participants"
    /\ LET ps == get_issue_participants(issue_user, comments)
       IN  hs' = [hs EXCEPT ![h] =
                    IF ps = {}
                    THEN Return([@ EXCEPT !.participants = ps, !.read = TRUE])
                    ELSE [@ EXCEPT !.participants = ps,
                                   !.read = TRUE,
                                   !.covered = TableCovers(comments, bot_username, ps),
                                   !.pc = "find_bot_comment_1"]]
    /\ UNCHANGED <<bot_username, issue_user, comments, next_id, repo,
                   WEBHOOK_SECRET, failing, nEvents,
                   data, score, nBlocks, result>>

\* a first lookup that goes on to the gathering when it finds a comment
FirstLookup_goes_on(h) ==
    /\ hs[h].pc = "find_bot_comment_1"
    /\ LET existing_comment == find_bot_comment(comments, bot_username)
       IN  hs' = [hs EXCEPT ![h] =
                    [@ EXCEPT !.existing_comment = existing_comment,
                              !.read = TRUE,
                              !.first_lookup = existing_comment,
                              !.pc = "get_user_reputation"]]
    /\ UNCHANGED <<bot_username, issue_user, comments, next_id, repo,
                   WEBHOOK_SECRET, failing, nEvents, data, score, nBlocks, result>>

\* lines 258-269.  GithubClient defines no extract_usernames_from_comment:
\* the call of line 260 raises AttributeError.
FirstLookup(h) ==
    /\ hs[h].pc = "find_bot_comment_1"
    /\ LET existing_comment == find_bot_comment(comments, bot_username)
       IN  hs' = [hs EXCEPT ![h] =
                    IF existing_comment # None
                    THEN Raise([@ EXCEPT !.existing_comment = existing_comment,
                                         !.read = TRUE,
                                         !.first_lookup = existing_comment],
                               "AttributeError extract_usernames_from_comment")
                    ELSE [@ EXCEPT !.existing_comment = existing_comment,
                                   !.read = TRUE,
                                   !.first_lookup = existing_comment,
                                   !.pc = "get_user_reputation"]]
    /\ UNCHANGED <<bot_username, issue_user, comments, next_id, repo,
                   WEBHOOK_SECRET, failing, nEvents,
                   data, score, nBlocks, result>>

\* lines 271-322
CollectData(h) ==
    /\ hs[h].pc = "get_user_reputation"
    /\ \E order \in IterationOrders(hs[h].participants) :
         LET participant_data == sort_by_score(collect_participant_data(repo, order))
         IN  hs' = [hs EXCEPT ![h] =
                      [@ EXCEPT !.participant_data = participant_data,
                                !.fetched = Len(order),
                                !.comment_body = TableBody(participant_data),
                                !.pc = "find_bot_comment_2"]]
    /\ UNCHANGED <<bot_username, issue_user, comments, next_id, repo,
                   WEBHOOK_SECRET, failing, nEvents,
                   data, score, nBlocks, result>>

\* lines 326-328
FinalLookup(h) ==
    /\ hs[h].pc = "find_bot_comment_2"
    /\ LET existing_comment == find_bot_comment(comments, bot_username)
       IN  hs' = [hs EXCEPT ![h] =
                    [@ EXCEPT !.existing_comment = existing_comment,
                              !.read = TRUE,
                              !.pc = IF existing_comment # None
                                     THEN "update_comment"
                                     ELSE "find_bot_comment_3"]]
    /\ UNCHANGED <<bot_username, issue_user, comments, next_id, repo,
                   WEBHOOK_SECRET, failing, nEvents,
                   data, score, nBlocks, result>>

\* lines 334-335
SecondLookup(h) ==
    /\ hs[h].pc = "find_bot_comment_3"
    /\ LET existing_comment == find_bot_comment(comments, bot_username)
       IN  hs' = [hs EXCEPT ![h] =
                    [@ EXCEPT !.existing_comment = existing_comment,
                              !.read = TRUE,
                              !.pc = IF existing_comment # None
                                     THEN "update_comment"
                                     ELSE "post_comment"]]
    /\ UNCHANGED <<bot_username, issue_user, comments, next_id, repo,
                   WEBHOOK_SECRET, failing, nEvents,
                   data, score, nBlocks, result>>

\* lines 330 and 337, then 342
UpdateExisting(h) ==
    /\ hs[h].pc = "update_comment"
    /\ comments' = update_comment(comments, hs[h].existing_comment.id,
                                  hs[h].comment_body)
    /\ hs' = [hs EXCEPT ![h] =
                Return([@ EXCEPT !.updated = @ + 1,
                                 !.target = hs[h].existing_comment.id])]
    /\ UNCHANGED <<bot_username, issue_user, next_id, repo,
                   WEBHOOK_SECRET, failing, nEvents,
                   data, score, nBlocks, result>>

\* line 340, then 342
PostNew(h) ==
    /\ hs[h].pc = "post_comment"
    /\ comments' = post_comment(comments, next_id, bot_username, hs[h].comment_body)
    /\ next_id' = next_id + 1
    /\ hs' = [hs EXCEPT ![h] =
                Return([@ EXCEPT !.posted = @ + 1, !.target = next_id])]
    /\ UNCHANGED <<bot_username, issue_user, repo,
                   WEBHOOK_SECRET, failing, nEvents,
                   data, score, nBlocks, result>>

\* lines 160-167
FetchAuthorReputation(h) ==
    /\ hs[h].pc = "pr_get_user_reputation"
    /\ LET reputation_data ==
               get_user_reputation(repo, hs[h].payload.login, CORE_TEAM_MEMBERS)
           reputation_score == calculate_reputation(reputation_data)
           reputation_line == format_reputation_line(reputation_score, reputation_data)
       IN  hs' = [hs EXCEPT ![h] =
                    [@ EXCEPT !.fetched = 1,
                              !.reputation_score = reputation_score,
                              !.comment_body =
                                  IF reputation_score < REPUTATION_THRESHOLD
                                  THEN CloseBody(reputation_line)
                                  ELSE LineBody(reputation_line),
                              !.pc = IF reputation_score < REPUTATION_THRESHOLD
                                     THEN "pr_post_close_comment"
                                     ELSE "pr_post_comment"]]
    /\ UNCHANGED <<bot_username, issue_user, comments, next_id, repo,
                   WEBHOOK_SECRET, failing, nEvents,
                   data, score, nBlocks, result>>

\* the close requested before the comment is posted
PostAutoClose_close_first(h) ==
    /\ hs[h].pc = "pr_post_close_comment"
    /\ hs' = [hs EXCEPT ![h] = Raise(@, "AttributeError close_pull_request")]
    /\ UNCHANGED <<bot_username, issue_user, comments, next_id, repo,
                   WEBHOOK_SECRET, failing, nEvents, data, score, nBlocks, result>>

\* lines 197-199.  GithubClient defines no close_pull_request: once the
\* comment is posted, the call of line 199 raises AttributeError.
PostAutoClose(h) ==
    /\ hs[h].pc = "pr_post_close_comment"
    /\ comments' = post_comment(comments, next_id, bot_username, hs[h].comment_body)
    /\ next_id' = next_id + 1
    /\ hs' = [hs EXCEPT ![h] =
                Raise([@ EXCEPT !.posted = @ + 1, !.target = next_id],
                      "AttributeError close_pull_request")]
    /\ UNCHANGED <<bot_username, issue_user, repo,
                   WEBHOOK_SECRET, failing, nEvents,
                   data, score, nBlocks, result>>

\* lines 204-207
PostReputationLine(h) ==
    /\ hs[h].pc = "pr_post_comment"
    /\ comments' = post_comment(comments, next_id, bot_username, hs[h].comment_body)
    /\ next_id' = next_id + 1
    /\ hs' = [hs EXCEPT ![h] =
                Return([@ EXCEPT !.posted = @ + 1, !.target = next_id])]
    /\ UNCHANGED <<bot_username, issue_user, repo,
                   WEBHOOK_SECRET, failing, nEvents,
                   data, score, nBlocks, result>>

\* a failed write that is made again
PlatformCallFails_retried(h) ==
    /\ Running(h)
    /\ hs' = [hs EXCEPT ![h] =
                [@ EXCEPT
                   !.posted = IF hs[h].pc \in {"post_comment",
                                  "pr_post_close_comment", "pr_post_comment"}
                              THEN @ + 1 ELSE @,
                   !.updated = IF hs[h].pc = "update_comment" THEN @ + 1 ELSE @]]
    /\ UNCHANGED <<bot_username, issue_user, comments, next_id, repo,
                   WEBHOOK_SECRET, failing, nEvents, data, score, nBlocks, result>>

\* A platform call fails: the client logs and re-raises (lines 27, 180, 220,
\* 256, 270), no handler catches it, the webhook answers 500.
PlatformCallFails(h) ==
    /\ Running(h)
    /\ hs' = [hs EXCEPT ![h] =
                Raise([@ EXCEPT
                        !.posted = IF hs[h].pc \in {"post_comment",
                                       "pr_post_close_comment", "pr_post_comment"}
                                   THEN @ + 1 ELSE @,
                        !.updated = IF hs[h].pc = "update_comment" THEN @ + 1 ELSE @],
                      hs[h].pc)]
    /\ UNCHANGED <<bot_username, issue_user, comments, next_id, repo,
                   WEBHOOK_SECRET, failing, nEvents,
                   data, score, nBlocks, result>>

-----------------------------------------------------------------------------
(* The platform's other users *)

UserBodies == {PlainBody("text"), PlainBody("quote")}
\* who writes what
Writes == {<<"bob", PlainBody("text")>>, <<"bob", PlainBody("quote")>>,
           <<"some-bot[bot]", PlainBody("text")>>}

UserComments == SelectSeq(comments, LAMBDA c : c.body \in UserBodies)

\* Somebody comments on the thread.
UserComment(u, body) ==
    /\ Len(UserComments) < MaxUserComments
    /\ comments' = post_comment(comments, next_id, u, body)
    /\ next_id' = next_id + 1
    /\ UNCHANGED <<bot_username, issue_user, repo,
                   WEBHOOK_SECRET, failing, hs, nEvents,
                   data, score, nBlocks, result>>

-----------------------------------------------------------------------------

\* no platform call fails for anybody
NoFailing == [u \in {} |-> {}]

ZeroData ==
    [merged_prs |-> 0, open_prs |-> 0, closed_prs |-> 0, issues |-> 0,
     comments |-> 0, core_thumbs_up |-> 0, core_thumbs_down |-> 0]

Init ==
    /\ bot_username \in {"reputation-bot", "reputation-bot[bot]"}
    /\ issue_user \in {"alice", "some-bot[bot]"}
    /\ comments = <<>>
    /\ next_id = 1
    /\ repo \in Repos
    /\ WEBHOOK_SECRET = TRUE
    /\ failing = NoFailing
    /\ hs = [h \in Handlers |-> Idle]
    /\ nEvents = 0
    /\ data = ZeroData
    /\ score = <<>>
    /\ nBlocks = 0
    /\ result = <<>>

\* Issue threads: issues and issue_comment deliveries, two requests at a time.
\* Every platform call succeeds here; PlatformCallFails is the step of a
\* platform that fails.
NextIssues ==
    \/ \E h \in Handlers, p \in IssuePayloads : webhook(h, Delivery(p))
    \/ \E h \in Handlers : GetParticipants(h)
    \/ \E h \in Handlers : FirstLookup(h)
    \/ \E h \in Handlers : CollectData(h)
    \/ \E h \in Handlers : FinalLookup(h)
    \/ \E h \in Handlers : SecondLookup(h)
    \/ \E h \in Handlers : UpdateExisting(h)
    \/ \E h \in Handlers : PostNew(h)
    \/ \E w \in Writes : UserComment(w[1], w[2])

SpecIssues == Init /\ [][NextIssues]_vars

\* Pull-request threads: pull_request deliveries and the comments on them
NextPulls ==
    \/ \E h \in Handlers, p \in PullPayloads : webhook(h, Delivery(p))
    \/ \E h \in Handlers : GetParticipants(h)
    \/ \E h \in Handlers : FirstLookup(h)
    \/ \E h \in Handlers : CollectData(h)
    \/ \E h \in Handlers : FinalLookup(h)
    \/ \E h \in Handlers : SecondLookup(h)
    \/ \E h \in Handlers : UpdateExisting(h)
    \/ \E h \in Handlers : PostNew(h)
    \/ \E h \in Handlers : FetchAuthorReputation(h)
    \/ \E h \in Handlers : PostAutoClose(h)
    \/ \E h \in Handlers : PostReputationLine(h)
    \/ \E w \in Writes : UserComment(w[1], w[2])

SpecPulls == Init /\ [][NextPulls]_vars

-----------------------------------------------------------------------------
(* calculate_reputation on its own: every record of counts up to MaxCount,  *)
(* with and without the optional 'assigned_issues' key.                      *)

Records ==
    [ScoreKeys -> 0..MaxCount]
    \cup {d @@ ("assigned_issues" :> a) :
            d \in [ScoreKeys -> 0..MaxCount], a \in 0..MaxCount}

InitScore ==
    /\ bot_username = "reputation-bot"
    /\ issue_user = "alice"
    /\ comments = <<>>
    /\ next_id = 1
    /\ repo = TheRepo
    /\ WEBHOOK_SECRET = TRUE
    /\ failing = NoFailing
    /\ hs = [h \in Handlers |-> Idle]
    /\ nEvents = 0
    /\ data \in Records
    /\ score = <<>>
    /\ nBlocks = 0
    /\ result = <<>>

Calculate ==
    /\ score = <<>>
    /\ score' = <<calculate_reputation(data)>>
    /\ UNCHANGED <<bot_username, issue_user, comments, next_id, repo,
                   WEBHOOK_SECRET, failing, hs, nEvents,
                   data, nBlocks, result>>

NextScore == Calculate

SpecScore == InitScore /\ [][NextScore]_vars

-----------------------------------------------------------------------------
(* get_issue_participants on its own: threads put together from blocks of   *)
(* comments, long enough for the limits of 30 comments and 10 participants. *)

BlockLengths == {1, 9, 21}
BlockKinds == {"people", "same", "bots", "cat"}
BotAccounts == <<"some-bot[bot]", "reputation-bot[bot]">>

\* People who have not written on the thread yet, in the order of People
fresh_people(author, cs) ==
    SelectSeq(People, LAMBDA u : u # author /\ \A i \in 1..Len(cs) : cs[i].user # u)

\* The authors of a block of n comments
block_authors(kind, n, author, cs) ==
    IF kind = "people" THEN SubSeq(fresh_people(author, cs), 1, n)
    ELSE IF kind = "same" THEN [j \in 1..n |-> People[1]]
    ELSE IF kind = "bots" THEN [j \in 1..n |-> BotAccounts[((j - 1) % 2) + 1]]
    ELSE [j \in 1..n |-> LondonCat]

InitParticipants ==
    /\ bot_username = "reputation-bot"
    /\ issue_user \in {"alice", "some-bot[bot]", LondonCat}
    /\ comments = <<>>
    /\ next_id = 1
    /\ repo = TheRepo
    /\ WEBHOOK_SECRET = TRUE
    /\ failing = NoFailing
    /\ hs = [h \in Handlers |-> Idle]
    /\ nEvents = 0
    /\ data = ZeroData
    /\ score = <<>>
    /\ nBlocks = 0
    /\ result = <<>>

AddBlock(kind, n) ==
    /\ result = <<>>
    /\ nBlocks < MaxBlocks
    /\ kind = "people" => Len(fresh_people(issue_user, comments)) >= n
    /\ nBlocks' = nBlocks + 1
    /\ LET authors == block_authors(kind, n, issue_user, comments)
       IN  comments' = comments \o
               [j \in 1..n |-> [id |-> next_id + j - 1, user |-> authors[j],
                                body |-> PlainBody("text")]]
    /\ next_id' = next_id + n
    /\ UNCHANGED <<bot_username, issue_user, repo,
                   WEBHOOK_SECRET, failing, hs, nEvents, data, score, result>>

Inspect ==
    /\ result = <<>>
    /\ result' = <<get_issue_participants(issue_user, comments)>>
    /\ UNCHANGED <<bot_username, issue_user, comments, next_id, repo,
                   WEBHOOK_SECRET, failing, hs, nEvents,
                   data, score, nBlocks>>

NextParticipants ==
    \/ \E kind \in BlockKinds, n \in BlockLengths : AddBlock(kind, n)
    \/ Inspect

SpecParticipants == InitParticipants /\ [][NextParticipants]_vars

-----------------------------------------------------------------------------
(* The table of post_or_update_issue_reputation on its own: two runs of     *)
(* lines 249-322 for one thread, in processes that need not be the same.    *)
(* dave and erin have the same score.                                       *)

TableCommenters == {"bob", "dave", "erin"}

\* The threads of at most n comments written by TableCommenters
TableThreads(n) ==
    UNION {[1..k -> TableCommenters] : k \in 0..n}

InitTable ==
    /\ bot_username = "reputation-bot"
    /\ issue_user \in {"alice", "dave"}
    /\ \E t \in TableThreads(MaxThread) :
          comments = [i \in 1..Len(t) |->
                        [id |-> i, user |-> t[i], body |-> PlainBody("text")]]
    /\ next_id = Len(comments) + 1
    /\ repo = TheRepo
    /\ WEBHOOK_SECRET = TRUE
    /\ failing = NoFailing
    /\ hs = [h \in Handlers |-> Idle]
    /\ nEvents = 0
    /\ data = ZeroData
    /\ score = <<>>
    /\ nBlocks = 0
    /\ result = <<>>

\* lines 249 and 271-322: the participants, their data in the order the set
\* is iterated, the sort, the table
Aggregate ==
    /\ Len(result) < 2
    /\ LET participants == get_issue_participants(issue_user, comments)
       IN  \E order \in IterationOrders(participants) :
             LET participant_data ==
                     sort_by_score(collect_participant_data(repo, order))
             IN  result' = Append(result,
                               [order |-> order,
                                participant_data |-> participant_data,
                                comment_body |-> TableBody(participant_data)])
    /\ UNCHANGED <<bot_username, issue_user, comments, next_id, repo,
                   WEBHOOK_SECRET, failing, hs, nEvents, data, score, nBlocks>>

NextTable == Aggregate

SpecTable == InitTable /\ [][NextTable]_vars

-----------------------------------------------------------------------------
(* get_user_reputation with failing platform calls: the gathering loop of   *)
(* app.py for alice and carol, the calls failing for one of them.           *)

Gathered == {"alice", "carol"}

FailureCombinations ==
    [get_repo : BOOLEAN, search_pulls : BOOLEAN, get_pull : 0..MaxFailAt,
     get_pulls : BOOLEAN, search_issues : BOOLEAN, get_issues : BOOLEAN,
     search_commented : BOOLEAN, get_issue : 0..MaxFailAt]

InitReputation ==
    /\ bot_username = "reputation-bot"
    /\ issue_user = "alice"
    /\ comments = <<>>
    /\ next_id = 1
    /\ repo = TheRepo
    /\ WEBHOOK_SECRET = TRUE
    /\ \E u \in Gathered, f \in FailureCombinations : failing = (u :> f)
    /\ hs = [h \in Handlers |-> Idle]
    /\ nEvents = 0
    /\ data = ZeroData
    /\ score = <<>>
    /\ nBlocks = 0
    /\ result = <<>>

\* lines 271-285
Gather ==
    /\ result = <<>>
    /\ \E order \in IterationOrders(Gathered) :
          LET got == gather(repo, order, 1, <<>>)
          IN  result' = <<[order |-> order,
                           raised |-> got.raised,
                           participant_data |->
                               IF got.raised THEN got.participant_data
                               ELSE sort_by_score(got.participant_data)]>>
    /\ UNCHANGED <<bot_username, issue_user, comments, next_id, repo,
                   WEBHOOK_SECRET, failing, hs, nEvents, data, score, nBlocks>>

NextReputation == Gather

SpecReputation == InitReputation /\ [][NextReputation]_vars

-----------------------------------------------------------------------------
(* get_user_reputation on repositories larger than its limits (100 matched  *)
(* pull requests, 300 scanned ones, 100 issues, 50 comment hits, 5 items    *)
(* inspected for reactions), the calls failing for alice.                   *)

\* The numbers of alice's pull requests, of other people's pull requests
\* listed before them, and of her issues
PullSizes == {3, 100, 101, 300, 301}
PullsBefore == {0, 5}
IssueSizes == {0, 6, 51, 101}

\* alice's k-th pull request: merged, open or closed in turn
PullOfAlice(k) ==
    IF k % 3 = 0 THEN Pull("alice", TRUE, "closed")
    ELSE IF k % 3 = 1 THEN Pull("alice", FALSE, "open")
    ELSE Pull("alice", FALSE, "closed")

\* a repository with before pull requests of bob, then pulls of alice, and
\* issues of alice she commented on, each with two reactions of a maintainer
LargeRepo(before, pulls, issues) ==
    [pulls |-> [i \in 1..before |-> Pull("bob", FALSE, "closed")]
               \o [k \in 1..pulls |-> PullOfAlice(k)],
     issues |-> [i \in 1..issues |->
                    Issue("alice", {"alice"},
                          <<Reaction("maintainer", "+1"),
                            Reaction("maintainer", "-1")>>)]]

LargeRepos ==
    {LargeRepo(b, p, i) : b \in PullsBefore, p \in PullSizes, i \in IssueSizes}

InitBounds ==
    /\ bot_username = "reputation-bot"
    /\ issue_user = "alice"
    /\ comments = <<>>
    /\ next_id = 1
    /\ repo \in LargeRepos
    /\ WEBHOOK_SECRET = TRUE
    /\ \E f \in FailureCombinations : failing = ("alice" :> f)
    /\ hs = [h \in Handlers |-> Idle]
    /\ nEvents = 0
    /\ data = ZeroData
    /\ score = <<>>
    /\ nBlocks = 0
    /\ result = <<>>

NextBounds == Gather

SpecBounds == InitBounds /\ [][NextBounds]_vars

-----------------------------------------------------------------------------
(* The webhook on its own: one request of any shape, with and without a     *)
(* configured secret, and the handler steps that follow it.                 *)

Events == {"ping", "push", "pull_request", "issues", "issue_comment"}

\* The payloads of pull_request and issues events: whole, with another
\* action, and with the number or the author missing in each way
ThreadPayloads(event) ==
    {Payload(event, "opened", THREAD, "alice"),
     Payload(event, "reopened", THREAD, "carol"),
     Payload(event, "closed", THREAD, "alice"),
     Payload(event, "opened", 0, "alice"),
     Payload(event, "opened", THREAD, ""),
     PartialPayload(event, "opened", "absent", "absent", "absent", 0, ""),
     PartialPayload(event, "opened", "null", "absent", "absent", 0, ""),
     PartialPayload(event, "opened", "object", "absent", "absent", THREAD, ""),
     PartialPayload(event, "opened", "object", "null", "absent", THREAD, ""),
     PartialPayload(event, "closed", "null", "absent", "absent", 0, "")}

\* The payloads of issue_comment events
CommentPayloads ==
    {Payload("issue_comment", "created", THREAD, "bob"),
     Payload("issue_comment", "edited", THREAD, "bob"),
     Payload("issue_comment", "deleted", THREAD, "bob"),
     Payload("issue_comment", "created", 0, "bob"),
     PartialPayload("issue_comment", "created", "absent", "absent", "object", 0, ""),
     PartialPayload("issue_comment", "created", "null", "absent", "object", 0, ""),
     PartialPayload("issue_comment", "created", "object", "null", "object", THREAD, ""),
     PartialPayload("issue_comment", "created", "object", "object", "absent", THREAD, ""),
     PartialPayload("issue_comment", "created", "object", "object", "null", THREAD, ""),
     PartialPayload("issue_comment", "created", "object", "object", "user_null", THREAD, "")}

\* The values a JSON body of an event can stand for
Values(event) ==
    {NonObject(event, "falsy"), NonObject(event, "truthy")}
    \cup (IF event \in {"pull_request", "issues"} THEN ThreadPayloads(event)
          ELSE IF event = "issue_comment" THEN CommentPayloads
          ELSE {Payload(event, "", 0, "")})

Signatures == {"valid", "invalid", "absent", "non_ascii"}
ContentTypes == {"json", "form"}

Requests ==
    {Request(sig, ct, body, p) :
        sig \in Signatures, ct \in ContentTypes, body \in {"json", "form_payload"},
        p \in UNION {Values(event) : event \in Events}}
    \cup {Request(sig, ct, body, NonObject(event, "falsy")) :
            sig \in Signatures, ct \in ContentTypes,
            body \in {"empty", "form_bad_payload", "form_other", "not_utf8"},
            event \in Events}

InitTransport ==
    /\ bot_username = "reputation-bot"
    /\ issue_user = "alice"
    /\ comments = <<>>
    /\ next_id = 1
    /\ repo = TheRepo
    /\ WEBHOOK_SECRET \in BOOLEAN
    /\ failing = NoFailing
    /\ hs = [h \in Handlers |-> Idle]
    /\ nEvents = 0
    /\ data = ZeroData
    /\ score = <<>>
    /\ nBlocks = 0
    /\ result = <<>>

\* The one request of a behaviour
OneRequest(req) == hs[1].pc = "idle" /\ webhook(1, req)

NextTransport ==
    \/ \E req \in Requests : OneRequest(req)
    \/ \E h \in Handlers : GetParticipants(h)
    \/ \E h \in Handlers : FirstLookup(h)
    \/ \E h \in Handlers : CollectData(h)
    \/ \E h \in Handlers : FinalLookup(h)
    \/ \E h \in Handlers : SecondLookup(h)
    \/ \E h \in Handlers : PostNew(h)
    \/ \E h \in Handlers : FetchAuthorReputation(h)
    \/ \E h \in Handlers : PostAutoClose(h)
    \/ \E h \in Handlers : PostReputationLine(h)

SpecTransport == InitTransport /\ [][NextTransport]_vars

-----------------------------------------------------------------------------
(* The handlers when the platform fails: any platform call of a request may *)
(* raise.                                                                   *)

FailurePayloads ==
    {Payload("issue_comment", "created", THREAD, "bob"),
     Payload("pull_request", "opened", THREAD, "alice"),
     Payload("pull_request", "opened", THREAD, "carol")}

InitFailures ==
    /\ bot_username = "reputation-bot"
    /\ issue_user = "alice"
    /\ comments = <<>>
    /\ next_id = 1
    /\ repo = TheRepo
    /\ WEBHOOK_SECRET = TRUE
    /\ failing = NoFailing
    /\ hs = [h \in Handlers |-> Idle]
    /\ nEvents = 0
    /\ data = ZeroData
    /\ score = <<>>
    /\ nBlocks = 0
    /\ result = <<>>

NextFailures ==
    \/ \E h \in Handlers, p \in FailurePayloads : webhook(h, Delivery(p))
    \/ \E h \in Handlers : GetParticipants(h)
    \/ \E h \in Handlers : FirstLookup(h)
    \/ \E h \in Handlers : CollectData(h)
    \/ \E h \in Handlers : FinalLookup(h)
    \/ \E h \in Handlers : SecondLookup(h)
    \/ \E h \in Handlers : UpdateExisting(h)
    \/ \E h \in Handlers : PostNew(h)
    \/ \E h \in Handlers : FetchAuthorReputation(h)
    \/ \E h \in Handlers : PostAutoClose(h)
    \/ \E h \in Handlers : PostReputationLine(h)
    \/ \E h \in Handlers : PlatformCallFails(h)

SpecFailures == InitFailures /\ [][NextFailures]_vars

-----------------------------------------------------------------------------
(* find_bot_comment on its own: threads of comments by the bot's account,   *)
(* by an account the bot used before, and by a person quoting the bot.      *)

FindWrites ==
    {<<"bob", PlainBody("text")>>, <<"bob", PlainBody("quote")>>,
     <<"bob", PlainBody("link")>>, <<"bob", PlainBody("heading")>>,
     <<"reputation-bot", PlainBody("text")>>,
     <<"reputation-bot", TableBody(<<>>)>>}

InitFind ==
    /\ bot_username \in {"reputation-bot", "reputation-bot[bot]"}
    /\ issue_user = "alice"
    /\ comments = <<>>
    /\ next_id = 1
    /\ repo = TheRepo
    /\ WEBHOOK_SECRET = TRUE
    /\ failing = NoFailing
    /\ hs = [h \in Handlers |-> Idle]
    /\ nEvents = 0
    /\ data = ZeroData
    /\ score = <<>>
    /\ nBlocks = 0
    /\ result = <<>>

\* Somebody comments on the thread before the lookup.
WriteComment(u, body) ==
    /\ result = <<>>
    /\ Len(comments) < MaxThread
    /\ comments' = post_comment(comments, next_id, u, body)
    /\ next_id' = next_id + 1
    /\ UNCHANGED <<bot_username, issue_user, repo, WEBHOOK_SECRET, failing,
                   hs, nEvents, data, score, nBlocks, result>>

\* lines 222-256
Find ==
    /\ result = <<>>
    /\ result' = <<find_bot_comment(comments, bot_username)>>
    /\ UNCHANGED <<bot_username, issue_user, comments, next_id, repo,
                   WEBHOOK_SECRET, failing, hs, nEvents, data, score, nBlocks>>

NextFind ==
    \/ \E w \in FindWrites : WriteComment(w[1], w[2])
    \/ Find

SpecFind == InitFind /\ [][NextFind]_vars

-----------------------------------------------------------------------------
(* The events the bot's own comments raise.  The platform delivers an       *)
(* issue_comment{created} event for every comment created on the thread,    *)
(* the bot's included.  One event from outside starts the chain; nobody     *)
(* else acts on the thread afterwards.                                      *)

LoopPayloads ==
    {Payload("issues", "opened", THREAD, "alice"),
     Payload("issue_comment", "created", THREAD, "alice"),
     Payload("pull_request", "opened", THREAD, "alice"),
     Payload("pull_request", "opened", THREAD, "carol")}

\* the threads the first event arrives on: no comment yet, a comment of the
\* author, a comment of the author quoting the bot's signature
LoopThreads ==
    {<<>>,
     <<[id |-> 1, user |-> "alice", body |-> PlainBody("text")]>>,
     <<[id |-> 1, user |-> "alice", body |-> PlainBody("quote")]>>}

InitLoop ==
    /\ bot_username \in {"reputation-bot", "reputation-bot[bot]"}
    /\ issue_user \in {"alice", "some-bot[bot]"}
    /\ comments \in LoopThreads
    /\ next_id = Len(comments) + 1
    /\ repo = TheRepo
    /\ WEBHOOK_SECRET = TRUE
    /\ failing = NoFailing
    /\ hs = [h \in Handlers |-> Idle]
    /\ nEvents = 0
    /\ data = ZeroData
    /\ score = <<>>
    /\ nBlocks = 0
    /\ result = <<>>

\* the event of the bot's account creating a comment
SelfPayload == Payload("issue_comment", "created", THREAD, bot_username)

\* The comments the bot's account created whose event is not delivered yet:
\* every delivery after the first one is the event of one of them.
PendingSelfEvents ==
    Cardinality({i \in 1..Len(comments) : comments[i].user = bot_username})
        - (IF nEvents = 0 THEN 0 ELSE nEvents - 1)

\* the event from outside
ExternalEvent(p) == nEvents = 0 /\ webhook(1, Delivery(p))

\* the platform delivers the event of a comment the bot created
SelfEvent(h) == PendingSelfEvents > 0 /\ webhook(h, Delivery(SelfPayload))

NextLoop ==
    \/ \E p \in LoopPayloads : ExternalEvent(p)
    \/ \E h \in Handlers : SelfEvent(h)
    \/ \E h \in Handlers : GetParticipants(h)
    \/ \E h \in Handlers : FirstLookup(h)
    \/ \E h \in Handlers : CollectData(h)
    \/ \E h \in Handlers : FinalLookup(h)
    \/ \E h \in Handlers : SecondLookup(h)
    \/ \E h \in Handlers : PostNew(h)
    \/ \E h \in Handlers : FetchAuthorReputation(h)
    \/ \E h \in Handlers : PostAutoClose(h)
    \/ \E h \in Handlers : PostReputationLine(h)

\* Every request is served to its answer and every event is delivered.
SpecLoop == InitLoop /\ [][NextLoop]_vars /\ WF_vars(NextLoop)

-----------------------------------------------------------------------------
(* Properties *)

Done(h) == hs[h].pc = "done"
\* the request ran post_or_update_issue_reputation
IssueRun(h) == dispatch(hs[h].payload) = "get_issue_participants"
\* the request ran handle_pull_request up to its reputation fetch
PullRun(h) == dispatch(hs[h].payload) = "pr_get_user_reputation"

\* The usernames a comment body mentions as @username.  GithubClient has no
\* such method; this is the rule the design gives for it.  Only the rows of
\* a table carry @username.
extract_usernames_from_comment(body) == row_usernames(body)

\* Positions of the comments written by the bot's account
BotComments == {i \in 1..Len(comments) : comments[i].user = bot_username}
\* Positions of the comments the bot wrote since request h arrived
OwnPosts(h) == {i \in BotComments : comments[i].id >= hs[h].since}
\* Every comment recognised as a bot comment was written during request h
NoForeignBotComment(h) ==
    \A i \in 1..Len(comments) :
        Recognised(comments[i], bot_username) => i \in OwnPosts(h)

\* C1: idempotence.  A sequentially processed run for a thread whose bot
\* comment is the table an earlier run posted for exactly the same
\* participants performs neither post_comment nor update_comment: the two
\* runs together wrote once, the first run's post, the only bot comment.
C1_SecondRunWritesNothing ==
    \A h \in Handlers :
        (Done(h) /\ IssueRun(h) /\ hs[h].alone /\ hs[h].covered)
        => /\ hs[h].posted = 0
           /\ hs[h].updated = 0
           /\ OwnPosts(h) = {}

C1_Witness ==
    /\ Done(1) /\ IssueRun(1) /\ hs[1].alone /\ hs[1].covered
    /\ hs[2].pc = "idle"
    /\ nEvents = 2
    /\ hs[1].participants = {"alice"}
    /\ Cardinality(BotComments) = 1
    /\ hs[1].posted = 0 /\ hs[1].updated = 0

\* C2: already-covered skip.  When the first lookup of an issue-thread run
\* returns a comment whose body mentions every participant, the run fetches
\* no reputation, writes nothing and ends normally (200).
C2_AlreadyCoveredSkip ==
    \A h \in Handlers :
        (/\ Done(h) /\ IssueRun(h)
         /\ hs[h].first_lookup # None
         /\ hs[h].participants \subseteq
                extract_usernames_from_comment(hs[h].first_lookup.body))
        => /\ hs[h].fetched = 0
           /\ hs[h].posted = 0
           /\ hs[h].updated = 0
           /\ hs[h].status = 200

\* C3: update in place.  When the first lookup of an issue-thread run returns
\* a comment that does not mention every participant, the run performs
\* exactly one update_comment, on that comment's id, and no post_comment.
C3_UpdateInPlace ==
    \A h \in Handlers :
        (/\ Done(h) /\ IssueRun(h)
         /\ hs[h].first_lookup # None
         /\ ~(hs[h].participants \subseteq
                extract_usernames_from_comment(hs[h].first_lookup.body)))
        => /\ hs[h].updated = 1
           /\ hs[h].target = hs[h].first_lookup.id
           /\ hs[h].posted = 0

\* C4: first post.  A run for a thread with participants and no bot comment,
\* with no other request running meanwhile, performs exactly one post_comment
\* and no update_comment; the posted table has one row for every participant.
C4_FirstPost ==
    \A h \in Handlers :
        (/\ Done(h) /\ IssueRun(h) /\ hs[h].alone
         /\ hs[h].participants # {}
         /\ NoForeignBotComment(h))
        => /\ hs[h].posted = 1
           /\ hs[h].updated = 0
           /\ hs[h].fetched = Cardinality(hs[h].participants)
           /\ Cardinality(OwnPosts(h)) = 1
           /\ \A i \in OwnPosts(h) :
                 /\ comments[i].id = hs[h].target
                 /\ comments[i].body.kind = "table"
                 /\ Len(comments[i].body.rows) = Cardinality(hs[h].participants)
                 /\ row_usernames(comments[i].body) = hs[h].participants

C4_Witness ==
    /\ Done(1) /\ IssueRun(1) /\ hs[1].alone
    /\ hs[1].payload.event = "issue_comment"
    /\ hs[1].participants = {"alice", "bob"}
    /\ NoForeignBotComment(1)
    /\ hs[1].posted = 1

\* C5: sequential convergence.  As long as the requests were processed one
\* at a time (the second slot was never needed), the thread holds at most
\* one comment created by post_or_update_issue_reputation.
C5_AtMostOneBotComment ==
    hs[2].pc = "idle" => Cardinality(BotComments) <= 1

C5_Witness ==
    /\ hs[2].pc = "idle"
    /\ nEvents >= 2
    /\ Done(1) /\ IssueRun(1)
    /\ hs[1].participants = {"alice", "bob"}
    /\ hs[1].first_lookup # None
    /\ row_usernames(hs[1].first_lookup.body) = {"alice"}
    /\ Cardinality(BotComments) = 1

\* C6: residual race.  When two requests for the thread have both gone
\* through their lookups to post_comment, each post creates a comment of its
\* own: the thread then holds two bot comments.
C6_BothPostsLand ==
    (\A h \in Handlers : Done(h) /\ IssueRun(h) /\ hs[h].posted = 1)
    => Cardinality(BotComments) = 2

C6_Witness ==
    /\ \A h \in Handlers :
          Done(h) /\ IssueRun(h) /\ hs[h].posted = 1 /\ hs[h].since = 1
    /\ Cardinality(BotComments) = 2
    /\ \A i \in BotComments : comments[i].body.kind = "table"

\* C7: threshold branch.  A pull_request opened/reopened run for an author
\* below the threshold posts one auto-close comment and issues one close
\* request; otherwise (the threshold itself included) it posts one normal
\* reputation comment and issues no close request.
C7_ThresholdBranch ==
    \A h \in Handlers :
        (Done(h) /\ PullRun(h))
        => IF hs[h].reputation_score < REPUTATION_THRESHOLD
           THEN /\ hs[h].posted = 1
                /\ hs[h].comment_body.kind = "close"
                /\ hs[h].closed = 1
           ELSE /\ hs[h].posted = 1
                /\ hs[h].comment_body.kind = "line"
                /\ hs[h].closed = 0

\* The records that differ from d at most in 'comments' and 'assigned_issues'
InformationalVariants(d) ==
    LET with_comments ==
            {[k \in ScoreKeys |-> IF k = "comments" THEN c ELSE d[k]] :
                c \in 0..MaxCount}
    IN  with_comments
        \cup {e @@ ("assigned_issues" :> a) : e \in with_comments, a \in 0..MaxCount}

\* C8: calculate_reputation returns 20*merged + 3*open - 10*closed + 5*issues
\* + 15*thumbs_up - 50*thumbs_down, unclamped; a record that differs only in
\* 'comments' or 'assigned_issues' gets the same score.
C8_Formula ==
    score # <<>> =>
        /\ score[1] = 20 * data["merged_prs"] + 3 * data["open_prs"]
                      - 10 * data["closed_prs"] + 5 * data["issues"]
                      + 15 * data["core_thumbs_up"] - 50 * data["core_thumbs_down"]
        /\ \A d \in InformationalVariants(data) :
              calculate_reputation(d) = score[1]

C8_Witness ==
    /\ score # <<>>
    /\ score[1] = -57
    /\ data["comments"] = 2
    /\ "assigned_issues" \in DOMAIN data

\* The number of comments the participant loop looks at: the first 30, or
\* fewer when the author and the commenters other than London-Cat number 10
\* before that.
Seen(k) ==
    {issue_user} \cup {comments[i].user : i \in {j \in 1..k : comments[j].user # LondonCat}}
InspectedCount ==
    LET n == Min(Len(comments), MaxInspectedComments)
        full == {k \in 1..n : comments[k].user # LondonCat
                              /\ Cardinality(Seen(k)) >= MaxParticipants}
    IN  IF full = {} THEN n ELSE CHOOSE k \in full : \A m \in full : k <= m

\* C9: get_issue_participants returns the author and the authors of the
\* inspected comments, without London-Cat and without the accounts whose
\* login ends in [bot].
C9_Participants ==
    result # <<>> =>
        result[1] = ({issue_user} \cup {comments[i].user : i \in 1..InspectedCount})
                    \ (BotSuffixed \cup {LondonCat})

C9_Witness ==
    /\ result = <<{"alice", "bob"}>>
    /\ issue_user = "alice"
    /\ [i \in 1..Len(comments) |-> comments[i].user]
         = <<"bob", "some-bot[bot]", LondonCat>>

\* The people among the author and the first 30 commenters
PeopleInFirstComments ==
    ({issue_user} \cup
     {comments[i].user : i \in 1..Min(Len(comments), MaxInspectedComments)})
    \ (BotSuffixed \cup {LondonCat})

\* C10: participant cap.  The result has at most 10 members, and exactly 10
\* whenever the author and the first 30 commenters include 10 people.
C10_ParticipantCap ==
    result # <<>> =>
        /\ Cardinality(result[1]) <= MaxParticipants
        /\ result[1] \subseteq PeopleInFirstComments
        /\ Cardinality(PeopleInFirstComments) >= MaxParticipants
           => Cardinality(result[1]) = MaxParticipants

\* The place of username u in the order the usernames were supplied
PositionIn(order, u) == CHOOSE i \in 1..Len(order) : order[i] = u

\* C11: ranking.  The rows of a rendered table are the supplied usernames,
\* in non-increasing score order; rows with equal scores keep the order in
\* which their usernames were supplied to the loop.
C11_Ranking ==
    \A k \in 1..Len(result) :
        LET rows == result[k].comment_body.rows
            order == result[k].order
        IN  /\ Len(rows) = Len(order)
            /\ {rows[i].username : i \in 1..Len(rows)} = Range(order)
            /\ \A i \in 1..(Len(rows) - 1) : rows[i].score >= rows[i + 1].score
            /\ \A i, j \in 1..Len(rows) :
                  (i < j /\ rows[i].score = rows[j].score)
                  => PositionIn(order, rows[i].username)
                       < PositionIn(order, rows[j].username)

C11_Witness ==
    \E k \in 1..Len(result) :
        /\ result[k].order = <<"erin", "alice", "dave", "bob">>
        /\ [i \in 1..4 |-> result[k].comment_body.rows[i].username]
             = <<"erin", "dave", "bob", "alice">>

\* C12: deterministic ordering.  Two runs for the same thread and the same
\* activity records produce the same comment body.
C12_SameBody ==
    Len(result) = 2 => result[1].comment_body = result[2].comment_body

\* The user whose platform calls fail, the failures, and the entry gathered
\* for a user
FailingUser == CHOOSE u \in DOMAIN failing : TRUE
Failures == failing[FailingUser]
EntryOf(u) ==
    LET pd == result[1].participant_data
    IN  pd[CHOOSE i \in 1..Len(pd) : pd[i].username = u]
HasEntry(u) ==
    \E i \in 1..Len(result[1].participant_data) :
        result[1].participant_data[i].username = u

\* The search path of the pull requests failed: the search itself, or the
\* fetch of one of the matched pull requests
SearchPathFailed ==
    \/ Failures.search_pulls
    \/ Failures.get_pull \in 1..Len(search_pulls(repo, FailingUser))

PullCounts(d) ==
    [merged_prs |-> d.merged_prs, open_prs |-> d.open_prs,
     closed_prs |-> d.closed_prs]

\* C13: no double counting.  When the search path failed and the fallback
\* scan ran, the returned merged/open/closed counts are the counts of the
\* fallback scan alone.
C13_NoDoubleCounting ==
    (/\ result # <<>>
     /\ HasEntry(FailingUser)
     /\ SearchPathFailed
     /\ ~Failures.get_pulls)
    => PullCounts(EntryOf(FailingUser).data)
         = classify_pulls(scan_pulls(repo, FailingUser), 1, NoPulls)

\* C14: sub-metric isolation.  Whatever calls fail, a record is returned for
\* the user and the other user's row is there with its usual record; a
\* sub-metric whose fetch failed is 0, one whose fetch succeeded has the value
\* it has with no failure.
C14_SubMetricIsolation ==
    result # <<>> =>
        /\ ~result[1].raised
        /\ \A u \in Gathered : HasEntry(u)
        /\ \A u \in Gathered \ {FailingUser} :
              EntryOf(u).data = get_user_reputation(repo, u, CORE_TEAM_MEMBERS)
        /\ LET got == EntryOf(FailingUser).data
               usual == get_user_reputation(repo, FailingUser, CORE_TEAM_MEMBERS)
           IN  /\ PullCounts(got) =
                     IF SearchPathFailed /\ Failures.get_pulls THEN NoPulls
                     ELSE PullCounts(usual)
               /\ got.issues =
                     IF Failures.search_issues /\ Failures.get_issues THEN 0
                     ELSE usual.issues
               /\ got.comments =
                     IF Failures.search_commented THEN 0 ELSE usual.comments
               /\ Failures.search_commented
                     => got.core_thumbs_up = 0 /\ got.core_thumbs_down = 0
               /\ (~Failures.search_commented /\ Failures.get_issue = 0)
                     => /\ got.core_thumbs_up = usual.core_thumbs_up
                        /\ got.core_thumbs_down = usual.core_thumbs_down

\* Request h made no platform call
NoPlatformCall(h) ==
    /\ ~hs[h].read
    /\ hs[h].fetched = 0
    /\ hs[h].posted = 0
    /\ hs[h].updated = 0
    /\ hs[h].closed = 0

\* Request h got as far as the dispatch of lines 123-134
Dispatched(h) ==
    hs[h].pc # "idle" /\ transport(hs[h].request, WEBHOOK_SECRET).status = 0

\* The number or the author a handler requires is missing from the payload
MissingRequired(p) ==
    /\ p.value = "object"
    /\ \/ /\ p.event \in {"pull_request", "issues"}
          /\ \/ p.issue \in {"absent", "null"}
             \/ p.user \in {"absent", "null"}
             \/ p.number = 0
             \/ p.login = ""
       \/ /\ p.event = "issue_comment"
          /\ p.issue \in {"absent", "null"} \/ p.number = 0

\* C15: partial payloads are a no-op.  A pull_request, issues or
\* issue_comment payload without the required number or author (absent,
\* null, or inside an absent or null object) makes no platform call and is
\* answered 200 'ok'.
C15_PartialPayloadNoOp ==
    \A h \in Handlers :
        (Dispatched(h) /\ MissingRequired(hs[h].payload))
        => /\ hs[h].pc = "done"
           /\ hs[h].status = 200
           /\ hs[h].response = "ok"
           /\ hs[h].raised = ""
           /\ NoPlatformCall(h)

\* The event is none the handlers act on
Ignored(p) ==
    \/ p.event \notin {"pull_request", "issues", "issue_comment"}
    \/ /\ p.value = "object"
       /\ \/ p.event \in {"pull_request", "issues"}
             /\ p.action \notin {"opened", "reopened"}
          \/ p.event = "issue_comment" /\ p.action # "created"

Unparsable(req) ==
    \/ req.body \in {"form_bad_payload", "form_other", "not_utf8"}
    \/ req.body \in {"json", "form_payload"} /\ req.payload.value # "object"
    \/ req.body = "json" /\ req.content_type = "form"

\* C18: authenticity gate.  With or without a configured secret, a request
\* whose signature is not the valid signature of its body is answered 401,
\* and no handler and no platform call runs for it; a request whose body
\* does not parse into a payload object reaches no handler.
C18_AuthenticityGate ==
    \A h \in Handlers :
        hs[h].pc # "idle" =>
            /\ hs[h].request.signature # "valid"
               => /\ hs[h].pc = "done"
                  /\ hs[h].status = 401
                  /\ hs[h].handler = ""
                  /\ NoPlatformCall(h)
            /\ Unparsable(hs[h].request) => hs[h].handler = ""

\* C19: ping.  A ping request that passes the signature verification is
\* answered 200 'pong', whatever its body, with no handler called and no
\* platform call.
C19_Ping ==
    \A h \in Handlers :
        (/\ hs[h].pc # "idle"
         /\ hs[h].request.payload.event = "ping"
         /\ \/ ~WEBHOOK_SECRET
            \/ hs[h].request.signature = "valid")
        => /\ hs[h].pc = "done"
           /\ hs[h].status = 200
           /\ hs[h].response = "pong"
           /\ hs[h].handler = ""
           /\ NoPlatformCall(h)
           /\ comments = <<>>

C19_Witness ==
    /\ WEBHOOK_SECRET
    /\ hs[1].request = Request("valid", "json", "not_utf8", NonObject("ping", "falsy"))
    /\ hs[1].response = "pong"

\* What a request raised when one of its writes failed: the step of the
\* failing post_comment or update_comment, or the call of close_pull_request
WriteFailures ==
    {"post_comment", "pr_post_comment", "pr_post_close_comment", "update_comment",
     "AttributeError close_pull_request"}

\* C17: a required-write failure fails the event.  When post_comment,
\* update_comment or close_pull_request raises, the request ends there: the
\* call is not made again, and the webhook answers 500, not 200 'ok'.
C17_WriteFailureFails ==
    \A h \in Handlers :
        hs[h].raised \in WriteFailures
        => /\ hs[h].pc = "done"
           /\ hs[h].status = 500
           /\ hs[h].response # "ok"
           /\ hs[h].posted + hs[h].updated = 1
           /\ hs[h].raised # "AttributeError close_pull_request" => hs[h].target = 0

C17_Witness ==
    /\ hs[1].raised = "update_comment"
    /\ hs[1].updated = 1
    /\ hs[1].status = 500
    /\ hs[1].comment_body.kind = "table"
    /\ Len(comments) = 1
    /\ comments[1].body.kind = "line"

\* The first comment of the thread that is the bot's by the identification
\* rule; 0 when there is none
FirstRecognised ==
    LET Q == {i \in 1..Len(comments) : Recognised(comments[i], bot_username)}
    IN  IF Q = {} THEN 0 ELSE CHOOSE i \in Q : \A j \in Q : i <= j

PullRequestComments ==
    {i \in 1..Len(comments) :
        comments[i].user = bot_username /\ comments[i].body.kind \in {"line", "close"}}

\* C21: one bot comment per pull-request thread.  As long as the requests
\* were processed one at a time, the thread holds at most one comment of
\* handle_pull_request.
C21_OnePullRequestComment ==
    hs[2].pc = "idle" => Cardinality(PullRequestComments) <= 1

\* Request h got to the call of close_pull_request (line 199)
CloseCalled(h) ==
    hs[h].closed > 0 \/ hs[h].raised = "AttributeError close_pull_request"

\* C24: auto-close ordering.  The call of close_pull_request is reached only
\* after the request's explanatory comment was posted; when that post_comment
\* fails, close_pull_request is not called.
C24_CommentBeforeClose ==
    \A h \in Handlers :
        /\ CloseCalled(h)
           => /\ hs[h].posted = 1
              /\ hs[h].comment_body.kind = "close"
              /\ \E i \in 1..Len(comments) :
                    comments[i].id = hs[h].target /\ comments[i].user = bot_username
        /\ hs[h].raised = "pr_post_close_comment"
           => /\ hs[h].pc = "done"
              /\ hs[h].closed = 0
              /\ hs[h].target = 0

C24_Witness ==
    /\ CloseCalled(1)
    /\ hs[1].reputation_score = -85
    /\ Len(comments) = 1
    /\ comments[1].body.kind = "close"
    /\ hs[2].raised = "pr_post_close_comment"

\* C25: at most one comment write per event.  A request calls post_comment,
\* update_comment and close_pull_request at most once each, an issues or
\* issue_comment request at most one of post_comment and update_comment; a
\* request whose platform call failed is over.
C25_OneWritePerEvent ==
    \A h \in Handlers :
        /\ hs[h].posted <= 1
        /\ hs[h].updated <= 1
        /\ hs[h].closed <= 1
        /\ IssueRun(h) => hs[h].posted + hs[h].updated <= 1
        /\ PullRun(h) => hs[h].updated = 0
        /\ hs[h].raised # "" => hs[h].pc = "done"

C25_Witness ==
    /\ Done(1) /\ IssueRun(1)
    /\ hs[1].updated = 1 /\ hs[1].posted = 0 /\ hs[1].status = 200
    /\ Done(2) /\ PullRun(2)
    /\ hs[2].posted = 1 /\ hs[2].status = 200

\* C27: the pull-request comment is not overwritten.  The body of a comment
\* posted by handle_pull_request is replaced only by a request that had
\* arrived before the comment was posted, never by a later one; comments
\* are not removed.
C27_PullRequestCommentKept ==
    [][/\ Len(comments') >= Len(comments)
       /\ \A i \in PullRequestComments :
             comments'[i].body # comments[i].body
             => \E h \in Handlers :
                   /\ hs[h].pc = "update_comment"
                   /\ hs[h].since <= comments[i].id]_vars

C27_Witness ==
    /\ hs[2].pc = "idle"
    /\ Done(1) /\ IssueRun(1)
    /\ Len(comments) = 1
    /\ comments[1].body.kind = "line"
    /\ comments[1].id < hs[1].since
    /\ hs[1].first_lookup.id = comments[1].id
    /\ hs[1].updated = 0

\* The pull requests of u the calls of get_user_reputation looked at, as
\* positions in repo.pulls: the matches the search path fetched before it
\* ended, and the ones the fallback scan went over
PullsOf(u) == {i \in 1..Len(repo.pulls) : repo.pulls[i].user = u}
FirstPullsOf(u, n) ==
    {i \in PullsOf(u) : Cardinality({j \in PullsOf(u) : j <= i}) <= n}
ExaminedPulls(u, f) ==
    LET fetched == IF f.search_pulls THEN {}
                   ELSE IF f.get_pull \in 1..Min(Cardinality(PullsOf(u)), MaxSearchedPulls)
                   THEN FirstPullsOf(u, f.get_pull - 1)
                   ELSE FirstPullsOf(u, MaxSearchedPulls)
        failed == \/ f.search_pulls
                  \/ f.get_pull \in 1..Min(Cardinality(PullsOf(u)), MaxSearchedPulls)
        scanned == IF failed /\ ~f.get_pulls
                   THEN {i \in PullsOf(u) : i <= MaxScannedPulls}
                   ELSE {}
    IN  fetched \cup scanned

FailuresOf(u) == IF u \in DOMAIN failing THEN failing[u] ELSE NoFailures

\* C23: partition of the pull requests.  In every record gathered, merged_prs
\* + open_prs + closed_prs is the number of the user's pull requests that were
\* examined, merged_prs is the number of the merged ones among them, and
\* closed_prs the number of the ones closed without a merge.
C23_PullRequestPartition ==
    result # <<>> =>
        \A u \in Gathered :
            HasEntry(u) =>
                LET d == EntryOf(u).data
                    examined == ExaminedPulls(u, FailuresOf(u))
                IN  /\ d.merged_prs + d.open_prs + d.closed_prs
                         = Cardinality(examined)
                    /\ d.merged_prs
                         = Cardinality({i \in examined : repo.pulls[i].merged})
                    /\ d.closed_prs
                         = Cardinality({i \in examined :
                                           /\ ~repo.pulls[i].merged
                                           /\ repo.pulls[i].state = "closed"})

\* The reactions of core team members on the first five items of the
\* commenter search
CoreReactionsRead(u) ==
    LET items == search_commented(repo, u)
        thumbs == check_reactions(
                      SubSeq(items, 1, Min(Len(items), MaxReactionItems)),
                      1, u, CORE_TEAM_MEMBERS, [up |-> 0, down |-> 0])
    IN  thumbs.up + thumbs.down

\* C22: collection bounds.  In every record returned, whatever the repository
\* holds and whatever calls fail: no count is negative, issues <= 100,
\* comments <= 50, the thumbs are reactions of at most 5 items, and merged_prs
\* + open_prs + closed_prs <= 100 when the search path succeeded, <= 300 when
\* the fallback scan ran.
C22_CollectionBounds ==
    result # <<>> =>
        \A i \in 1..Len(result[1].participant_data) :
            LET u == result[1].participant_data[i].username
                d == result[1].participant_data[i].data
                f == FailuresOf(u)
                failed == \/ f.search_pulls
                          \/ f.get_pull \in
                               1..Min(Len(search_pulls(repo, u)), MaxSearchedPulls)
            IN  /\ d.merged_prs >= 0 /\ d.open_prs >= 0 /\ d.closed_prs >= 0
                /\ d.issues >= 0 /\ d.comments >= 0
                /\ d.core_thumbs_up >= 0 /\ d.core_thumbs_down >= 0
                /\ d.issues <= MaxIssues
                /\ d.comments <= MaxCommentHits
                /\ d.core_thumbs_up + d.core_thumbs_down <= CoreReactionsRead(u)
                /\ d.merged_prs + d.open_prs + d.closed_prs
                     <= IF failed THEN MaxScannedPulls ELSE MaxSearchedPulls

\* The chain is over: the first event was delivered, no request is being
\* served and no event of a comment of the bot is waiting
ChainOver ==
    /\ nEvents > 0
    /\ \A h \in Handlers : ~Running(h)
    /\ PendingSelfEvents = 0

\* C26: no self-triggered loop.  After one event from outside and with nobody
\* else acting on the thread, the events raised by the bot's own comments come
\* to an end: from some point on no request runs, no event of a bot comment
\* is waiting, and the bot's account has written at most one comment.
C26_ChainTerminates ==
    <>[](ChainOver /\ Cardinality(BotComments) <= 1)

\* the event of the bot's own comment was handled and wrote nothing
C26_Witness ==
    /\ nEvents = 2
    /\ Done(1)
    /\ hs[1].payload = SelfPayload
    /\ hs[1].read
    /\ hs[1].posted = 0
    /\ hs[1].updated = 0
    /\ Cardinality(BotComments) = 1
    /\ ChainOver

====
